---- MODULE Spec2Model ----
(***************************************************************************)
(* State-machine model of solace_consumer.py: the main thread of main()    *)
(* (argument validation, setup, blocking wait, cleanup) and the delivery   *)
(* thread of the messaging library running MessageCounter.on_message.      *)
(*                                                                         *)
(* The messaging library is outside the repository.  Its calls are         *)
(* modelled by their outcomes as seen by this code: every call made inside *)
(* the try block may return or raise; receiver.terminate() is a blocking   *)
(* call that returns normally only once the delivery thread is no longer   *)
(* inside the callback, and after which nothing is delivered; a raise of   *)
(* terminate() leaves the receiver as it was.                              *)
(***************************************************************************)
EXTENDS Integers, Sequences, FiniteSets, TLC

\* Number of messages the broker delivers in one run.
MaxMessages == 2

Modes == {"topic", "queue"}
QueueNames == {"", "orders"}
QueueTypes == {"exclusive", "non-exclusive"}

\* Exception classes the two except clauses of main distinguish.
ErrorTypes == {"PubSubPlusClientError", "Exception"}

\* Where the handling of one message fails: nowhere, in get_destination_name,
\* in a header accessor, in payload retrieval or printing, in the UTF-8
\* decoding of the payload bytes, or in receiver.ack.
FailPoints == {"none", "destination", "header", "payload", "decode", "ack"}

VARIABLES
    args,               \* the parsed command line (argparse Namespace)
    mainpc,             \* position of the main thread
    exitCode,           \* {} while running, {code} once the process has exited
    failure,            \* setup step that failed, "none" otherwise
    interrupted,        \* a KeyboardInterrupt has been delivered
    messaging_service,  \* "None" | "built"
    connected,          \* messaging_service.connect() has succeeded
    receiver,           \* "None" | "built" | "started" | "terminated"
    registered,         \* receive_async(message_handler) has succeeded
    subscribed,         \* add_subscription(topic_sub) has succeeded
    message_handler,    \* the MessageCounter fields other than message_count
    message_count,      \* MessageCounter.message_count
    trace,              \* library calls attempted by the main thread, in order
    termResult,         \* outcome of receiver.terminate(): "none"|"ok"|"raised"
    discResult,         \* outcome of messaging_service.disconnect()
    busyAtCall,         \* cleanup calls made while on_message was executing
    finalCount,         \* <<>>, or <<n>> once the final summary printed n
    busyAtRead,         \* on_message was executing when the summary was read
    startedAfterRead,   \* an on_message invocation started after that read
    hpc,                \* position of the delivery thread inside on_message
    cur,                \* the message being handled
    delivered,          \* messages handed to on_message, in order
    msgLines,           \* numbers printed as "Message #n", in order
    totalLines,         \* numbers printed as "Total messages received: n"
    ackCalls,           \* messages passed to receiver.ack, in order
    ackWarnings,        \* messages whose receiver.ack raised (warning printed)
    returned,           \* messages whose on_message invocation returned
    escaped             \* messages whose on_message invocation raised

vars == <<args, mainpc, exitCode, failure, interrupted, messaging_service,
          connected, receiver, registered, subscribed, message_handler,
          message_count, trace, termResult, discResult, busyAtCall,
          finalCount, busyAtRead, startedAfterRead, hpc, cur, delivered,
          msgLines, totalLines, ackCalls, ackWarnings, returned, escaped>>

mainVars == <<mainpc, exitCode, failure, interrupted, messaging_service,
              connected, receiver, registered, subscribed, message_handler,
              trace, termResult, discResult, busyAtCall, finalCount,
              busyAtRead>>

handlerVars == <<hpc, cur, delivered, msgLines, totalLines, ackCalls,
                 ackWarnings, returned, escaped, message_count, startedAfterRead>>

NoMessage == [id |-> 0, fail |-> "none"]

NoHandler == [created |-> FALSE, receiver |-> FALSE, is_persistent |-> FALSE,
              show_message |-> FALSE, show_headers |-> FALSE]

ArgSpace == [mode : Modes, queue : QueueNames, queue_type : QueueTypes,
             ack : BOOLEAN, show_message : BOOLEAN, show_headers : BOOLEAN]

Init ==
    /\ args \in ArgSpace
    /\ mainpc = "validate"
    /\ exitCode = {}
    /\ failure = "none"
    /\ interrupted = FALSE
    /\ messaging_service = "None"
    /\ connected = FALSE
    /\ receiver = "None"
    /\ registered = FALSE
    /\ subscribed = FALSE
    /\ message_handler = NoHandler
    /\ message_count = 0
    /\ trace = <<>>
    /\ termResult = "none"
    /\ discResult = "none"
    /\ busyAtCall = {}
    /\ finalCount = <<>>
    /\ busyAtRead = FALSE
    /\ startedAfterRead = FALSE
    /\ hpc = "idle"
    /\ cur = NoMessage
    /\ delivered = <<>>
    /\ msgLines = <<>>
    /\ totalLines = <<>>
    /\ ackCalls = <<>>
    /\ ackWarnings = <<>>
    /\ returned = <<>>
    /\ escaped = <<>>

----------------------------------------------------------------------------
\* Control flow of main

\* Mutant of SetupOrder: the topic subscription is added before the handler
\* is registered.
SetupOrder_SubscribeFirst(m) ==
    IF m = "topic"
    THEN <<"build_service", "connect", "build_receiver", "start",
           "create_handler", "topic_sub", "subscribe", "register", "wait">>
    ELSE <<"build_service", "connect", "build_receiver", "start",
           "create_handler", "register", "wait">>

\* Statements of the try block up to the blocking wait, in program order.
SetupOrder(m) ==
    IF m = "topic"
    THEN <<"build_service", "connect", "build_receiver", "start",
           "create_handler", "topic_sub", "register", "subscribe", "wait">>
    ELSE <<"build_service", "connect", "build_receiver", "start",
           "create_handler", "register", "wait">>

\* Mutant of CleanupOrder: the session is disconnected before the receiver
\* is terminated.
CleanupOrder_DisconnectFirst ==
    <<"disconnect", "terminate", "summary", "goodbye">>

\* Mutant of CleanupOrder: the summary is printed before the cleanup calls.
CleanupOrder_SummaryFirst ==
    <<"summary", "terminate", "disconnect", "goodbye">>

\* Statements after the blocking wait, in program order.
CleanupOrder == <<"terminate", "disconnect", "summary", "goodbye">>

ProgramOrder(m) == SetupOrder(m) \o CleanupOrder \o <<"exited">>

IndexOf(seq, x) == CHOOSE i \in 1..Len(seq) : seq[i] = x

NextPc(m, pc) == ProgramOrder(m)[IndexOf(ProgramOrder(m), pc) + 1]

InSetup(m, pc) ==
    \E i \in 1..(Len(SetupOrder(m)) - 1) : SetupOrder(m)[i] = pc

\* Mutant of ExitCodeFor: the except clauses print the error without
\* calling sys.exit(1).
ExitCodeFor_NoErrorStatus(kind) ==
    CASE kind = "usage" -> 2
      [] kind = "sigint" -> 130
      [] OTHER -> 0

\* Exit status of the process for each way main ends.
ExitCodeFor(kind) ==
    CASE kind = "usage" -> 2
      [] kind = "error" -> 1
      [] kind = "sigint" -> 130
      [] OTHER -> 0

\* Mutant of QueueNameMissing: the check is skipped when --ack is given.
QueueNameMissing_UnlessAck(a) == a.mode = "queue" /\ a.queue = "" /\ ~a.ack

\* "if SUBSCRIPTION_MODE == 'queue' and not QUEUE_NAME"
QueueNameMissing(a) == a.mode = "queue" /\ a.queue = ""

Exit(kind) ==
    /\ mainpc' = "exited"
    /\ exitCode' = {ExitCodeFor(kind)}

\* An exception raised inside the try block before the wait: one of the two
\* except clauses prints it and calls sys.exit(1).
SetupRaises(step, err) ==
    /\ err \in ErrorTypes
    /\ failure' = step
    /\ Exit("error")

Validate ==
    /\ mainpc = "validate"
    /\ IF QueueNameMissing(args)
       THEN /\ failure' = "config"
            /\ Exit("usage")
       ELSE /\ mainpc' = "build_service"
            /\ UNCHANGED <<exitCode, failure>>
    /\ UNCHANGED <<interrupted, messaging_service, connected, receiver,
                   registered, subscribed, message_handler, trace,
                   termResult, discResult, busyAtCall, finalCount,
                   busyAtRead>>
    /\ UNCHANGED <<handlerVars, args>>

BuildService ==
    /\ mainpc = "build_service"
    /\ trace' = Append(trace, "build_service")
    /\ \/ /\ messaging_service' = "built"
          /\ mainpc' = NextPc(args.mode, mainpc)
          /\ UNCHANGED <<exitCode, failure>>
       \/ /\ \E err \in ErrorTypes : SetupRaises("build_service", err)
          /\ UNCHANGED messaging_service
    /\ UNCHANGED <<interrupted, connected, receiver, registered, subscribed,
                   message_handler, termResult, discResult, busyAtCall,
                   finalCount, busyAtRead>>
    /\ UNCHANGED <<handlerVars, args>>

Connect ==
    /\ mainpc = "connect"
    /\ trace' = Append(trace, "connect")
    /\ \/ /\ connected' = TRUE
          /\ mainpc' = NextPc(args.mode, mainpc)
          /\ UNCHANGED <<exitCode, failure>>
       \/ /\ \E err \in ErrorTypes : SetupRaises("connect", err)
          /\ UNCHANGED connected
    /\ UNCHANGED <<interrupted, messaging_service, receiver, registered,
                   subscribed, message_handler, termResult, discResult,
                   busyAtCall, finalCount, busyAtRead>>
    /\ UNCHANGED <<handlerVars, args>>

BuildReceiver ==
    /\ mainpc = "build_receiver"
    /\ trace' = Append(trace, "build_receiver")
    /\ \/ /\ receiver' = "built"
          /\ mainpc' = NextPc(args.mode, mainpc)
          /\ UNCHANGED <<exitCode, failure>>
       \/ /\ \E err \in ErrorTypes : SetupRaises("build_receiver", err)
          /\ UNCHANGED receiver
    /\ UNCHANGED <<interrupted, messaging_service, connected, registered,
                   subscribed, message_handler, termResult, discResult,
                   busyAtCall, finalCount, busyAtRead>>
    /\ UNCHANGED <<handlerVars, args>>

\* receiver.start(); for the persistent receiver this binds to the queue.
StartReceiver ==
    /\ mainpc = "start"
    /\ trace' = Append(trace, "start")
    /\ \/ /\ receiver' = "started"
          /\ mainpc' = NextPc(args.mode, mainpc)
          /\ UNCHANGED <<exitCode, failure>>
       \/ /\ \E err \in ErrorTypes : SetupRaises("start", err)
          /\ UNCHANGED receiver
    /\ UNCHANGED <<interrupted, messaging_service, connected, registered,
                   subscribed, message_handler, termResult, discResult,
                   busyAtCall, finalCount, busyAtRead>>
    /\ UNCHANGED <<handlerVars, args>>

\* MessageCounter(receiver=..., is_persistent=..., ...)
NewHandler(a) ==
    [created |-> TRUE,
     receiver |-> (a.mode = "queue"),
     is_persistent |-> (a.mode = "queue" /\ a.ack),
     show_message |-> a.show_message,
     show_headers |-> a.show_headers]

CreateHandler ==
    /\ mainpc = "create_handler"
    /\ message_handler' = NewHandler(args)
    /\ mainpc' = NextPc(args.mode, mainpc)
    /\ UNCHANGED <<exitCode, failure, interrupted, messaging_service,
                   connected, receiver, registered, subscribed, trace,
                   termResult, discResult, busyAtCall, finalCount,
                   busyAtRead>>
    /\ UNCHANGED <<handlerVars, args>>

\* TopicSubscription.of(TOPIC_SUBSCRIPTION)
MakeTopicSubscription ==
    /\ mainpc = "topic_sub"
    /\ \/ /\ mainpc' = NextPc(args.mode, mainpc)
          /\ UNCHANGED <<exitCode, failure>>
       \/ \E err \in ErrorTypes : SetupRaises("topic_sub", err)
    /\ UNCHANGED <<interrupted, messaging_service, connected, receiver,
                   registered, subscribed, message_handler, trace,
                   termResult, discResult, busyAtCall, finalCount,
                   busyAtRead>>
    /\ UNCHANGED <<handlerVars, args>>

ReceiveAsync ==
    /\ mainpc = "register"
    /\ trace' = Append(trace, "receive_async")
    /\ \/ /\ registered' = TRUE
          /\ mainpc' = NextPc(args.mode, mainpc)
          /\ UNCHANGED <<exitCode, failure>>
       \/ /\ \E err \in ErrorTypes : SetupRaises("register", err)
          /\ UNCHANGED registered
    /\ UNCHANGED <<interrupted, messaging_service, connected, receiver,
                   subscribed, message_handler, termResult, discResult,
                   busyAtCall, finalCount, busyAtRead>>
    /\ UNCHANGED <<handlerVars, args>>

AddSubscription ==
    /\ mainpc = "subscribe"
    /\ trace' = Append(trace, "add_subscription")
    /\ \/ /\ subscribed' = TRUE
          /\ mainpc' = NextPc(args.mode, mainpc)
          /\ UNCHANGED <<exitCode, failure>>
       \/ /\ \E err \in ErrorTypes : SetupRaises("subscribe", err)
          /\ UNCHANGED subscribed
    /\ UNCHANGED <<interrupted, messaging_service, connected, receiver,
                   registered, message_handler, termResult, discResult,
                   busyAtCall, finalCount, busyAtRead>>
    /\ UNCHANGED <<handlerVars, args>>

\* KeyboardInterrupt inside "while True: time.sleep(1)": caught, cleanup runs.
InterruptAtWait ==
    /\ mainpc = "wait"
    /\ interrupted' = TRUE
    /\ mainpc' = NextPc(args.mode, mainpc)
    /\ UNCHANGED <<exitCode, failure, messaging_service, connected, receiver,
                   registered, subscribed, message_handler, trace,
                   termResult, discResult, busyAtCall, finalCount,
                   busyAtRead>>
    /\ UNCHANGED <<handlerVars, args>>

\* KeyboardInterrupt before the wait: not an Exception, so no except clause
\* of main catches it and the interpreter ends the process.
InterruptDuringSetup ==
    /\ InSetup(args.mode, mainpc)
    /\ interrupted' = TRUE
    /\ Exit("sigint")
    /\ UNCHANGED <<failure, messaging_service, connected, receiver,
                   registered, subscribed, message_handler, trace,
                   termResult, discResult, busyAtCall, finalCount,
                   busyAtRead>>
    /\ UNCHANGED <<handlerVars, args>>

----------------------------------------------------------------------------
\* Cleanup after the interrupt

\* "if receiver:" then the call of receiver.terminate()
TerminateCall ==
    /\ mainpc = "terminate"
    /\ IF receiver # "None"
       THEN /\ trace' = Append(trace, "terminate")
            /\ busyAtCall' = IF hpc # "idle"
                             THEN busyAtCall \cup {"terminate"}
                             ELSE busyAtCall
            /\ mainpc' = "terminating"
       ELSE /\ mainpc' = NextPc(args.mode, "terminate")
            /\ UNCHANGED <<trace, busyAtCall>>
    /\ UNCHANGED <<exitCode, failure, interrupted, messaging_service,
                   connected, receiver, registered, subscribed,
                   message_handler, termResult, discResult, finalCount,
                   busyAtRead>>
    /\ UNCHANGED <<handlerVars, args>>

\* receiver.terminate() returns: the delivery thread has left the callback
\* and the receiver delivers nothing more.
TerminateReturns ==
    /\ mainpc = "terminating"
    /\ hpc = "idle"
    /\ receiver' = "terminated"
    /\ termResult' = "ok"
    /\ mainpc' = NextPc(args.mode, "terminate")
    /\ UNCHANGED <<exitCode, failure, interrupted, messaging_service,
                   connected, registered, subscribed, message_handler,
                   trace, discResult, busyAtCall, finalCount, busyAtRead>>
    /\ UNCHANGED <<handlerVars, args>>

\* Mutant of TerminateRaises: the exception is not caught around the call and
\* reaches the except clauses of main.
TerminateRaises_Propagates ==
    /\ mainpc = "terminating"
    /\ termResult' = "raised"
    /\ failure' = "terminate"
    /\ Exit("error")
    /\ UNCHANGED <<interrupted, messaging_service, connected, receiver,
                   registered, subscribed, message_handler, trace,
                   discResult, busyAtCall, finalCount, busyAtRead>>
    /\ UNCHANGED <<handlerVars, args>>

\* receiver.terminate() raises: "except Exception" prints a warning and the
\* cleanup goes on; the receiver is left as it was.
TerminateRaises ==
    /\ mainpc = "terminating"
    /\ termResult' = "raised"
    /\ mainpc' = NextPc(args.mode, "terminate")
    /\ UNCHANGED <<exitCode, failure, interrupted, messaging_service,
                   connected, receiver, registered, subscribed,
                   message_handler, trace, discResult, busyAtCall,
                   finalCount, busyAtRead>>
    /\ UNCHANGED <<handlerVars, args>>

\* "if messaging_service:" then disconnect(), a raise being only a warning
Disconnect ==
    /\ mainpc = "disconnect"
    /\ IF messaging_service # "None"
       THEN /\ trace' = Append(trace, "disconnect")
            /\ busyAtCall' = IF hpc # "idle"
                             THEN busyAtCall \cup {"disconnect"}
                             ELSE busyAtCall
            /\ \/ /\ connected' = FALSE
                  /\ discResult' = "ok"
               \/ /\ discResult' = "raised"
                  /\ UNCHANGED connected
       ELSE UNCHANGED <<trace, busyAtCall, connected, discResult>>
    /\ mainpc' = NextPc(args.mode, "disconnect")
    /\ UNCHANGED <<exitCode, failure, interrupted, messaging_service,
                   receiver, registered, subscribed, message_handler,
                   termResult, finalCount, busyAtRead>>
    /\ UNCHANGED <<handlerVars, args>>

\* print(f"Total messages received: {message_handler.message_count}")
PrintSummary ==
    /\ mainpc = "summary"
    /\ trace' = Append(trace, "summary")
    /\ finalCount' = Append(finalCount, message_count)
    /\ busyAtRead' = (hpc # "idle")
    /\ mainpc' = NextPc(args.mode, "summary")
    /\ UNCHANGED <<exitCode, failure, interrupted, messaging_service,
                   connected, receiver, registered, subscribed,
                   message_handler, termResult, discResult, busyAtCall>>
    /\ UNCHANGED <<handlerVars, args>>

\* print("Disconnected successfully!"), main returns, the process ends
PrintGoodbye ==
    /\ mainpc = "goodbye"
    /\ Exit("normal")
    /\ UNCHANGED <<failure, interrupted, messaging_service, connected,
                   receiver, registered, subscribed, message_handler, trace,
                   termResult, discResult, busyAtCall, finalCount,
                   busyAtRead>>
    /\ UNCHANGED <<handlerVars, args>>

----------------------------------------------------------------------------
\* The delivery thread: MessageCounter.on_message

\* The library hands messages to the registered handler while the receiver
\* is started, the session is up and (direct receiver) a subscription exists.
CanDeliver ==
    /\ mainpc # "exited"
    /\ registered
    /\ receiver = "started"
    /\ connected
    /\ (args.mode = "topic" => subscribed)

\* The exception leaves on_message and reaches the library.
Raise ==
    /\ hpc' = "idle"
    /\ escaped' = Append(escaped, cur.id)
    /\ cur' = NoMessage
    /\ UNCHANGED returned

Return ==
    /\ hpc' = "idle"
    /\ returned' = Append(returned, cur.id)
    /\ cur' = NoMessage
    /\ UNCHANGED escaped

\* on_message is entered: self.message_count += 1
OnMessage ==
    /\ hpc = "idle"
    /\ CanDeliver
    /\ Len(delivered) < MaxMessages
    /\ \E f \in FailPoints :
          cur' = [id |-> Len(delivered) + 1, fail |-> f]
    /\ delivered' = Append(delivered, Len(delivered) + 1)
    /\ message_count' = message_count + 1
    /\ startedAfterRead' = (startedAfterRead \/ finalCount # <<>>)
    /\ hpc' = "destination"
    /\ UNCHANGED <<msgLines, totalLines, ackCalls, returned, escaped, args,
                   ackWarnings>>
    /\ UNCHANGED mainVars

\* topic = message.get_destination_name(); print "Message #{count}", "Topic:"
GetDestination ==
    /\ hpc = "destination"
    /\ mainpc # "exited"
    /\ IF cur.fail = "destination"
       THEN /\ Raise
            /\ UNCHANGED msgLines
       ELSE /\ msgLines' = Append(msgLines, message_count)
            /\ hpc' = "headers"
            /\ UNCHANGED <<cur, returned, escaped>>
    /\ UNCHANGED <<delivered, totalLines, ackCalls, message_count,
                   startedAfterRead, args,
                   ackWarnings>>
    /\ UNCHANGED mainVars

\* "if self.show_headers:" and the ten header accessors
ShowHeaders ==
    /\ hpc = "headers"
    /\ mainpc # "exited"
    /\ IF message_handler.show_headers /\ cur.fail = "header"
       THEN Raise
       ELSE /\ hpc' = "payload"
            /\ UNCHANGED <<cur, returned, escaped>>
    /\ UNCHANGED <<delivered, msgLines, totalLines, ackCalls, message_count,
                   startedAfterRead, args,
                   ackWarnings>>
    /\ UNCHANGED mainVars

\* "if self.show_message:" payload retrieval; a failed decode of the bytes
\* is caught and replaced by repr(payload_bytes)
ShowPayload ==
    /\ hpc = "payload"
    /\ mainpc # "exited"
    /\ IF message_handler.show_message /\ cur.fail = "payload"
       THEN Raise
       ELSE /\ hpc' = "total"
            /\ UNCHANGED <<cur, returned, escaped>>
    /\ UNCHANGED <<delivered, msgLines, totalLines, ackCalls, message_count,
                   startedAfterRead, args,
                   ackWarnings>>
    /\ UNCHANGED mainVars

\* print(f"Total messages received: {self.message_count}")
PrintTotal ==
    /\ hpc = "total"
    /\ mainpc # "exited"
    /\ totalLines' = Append(totalLines, message_count)
    /\ hpc' = "ack"
    /\ UNCHANGED <<cur, returned, escaped, delivered, msgLines, ackCalls,
                   message_count, startedAfterRead, args,
                   ackWarnings>>
    /\ UNCHANGED mainVars

\* "if self.is_persistent and self.receiver:" receiver.ack(message), a raise
\* of ack being caught and printed as a warning
Acknowledge ==
    /\ hpc = "ack"
    /\ mainpc # "exited"
    /\ IF message_handler.is_persistent /\ message_handler.receiver
       THEN /\ ackCalls' = Append(ackCalls, cur.id)
            /\ ackWarnings' = IF cur.fail = "ack"
                               THEN Append(ackWarnings, cur.id)
                               ELSE ackWarnings
       ELSE UNCHANGED <<ackCalls, ackWarnings>>
    /\ Return
    /\ UNCHANGED <<delivered, msgLines, totalLines, message_count,
                   startedAfterRead, args>>
    /\ UNCHANGED mainVars

----------------------------------------------------------------------------

MainStep ==
    \/ Validate
    \/ BuildService
    \/ Connect
    \/ BuildReceiver
    \/ StartReceiver
    \/ CreateHandler
    \/ MakeTopicSubscription
    \/ ReceiveAsync
    \/ AddSubscription
    \/ TerminateCall
    \/ TerminateReturns
    \/ TerminateRaises
    \/ Disconnect
    \/ PrintSummary
    \/ PrintGoodbye

HandlerStep ==
    \/ GetDestination
    \/ ShowHeaders
    \/ ShowPayload
    \/ PrintTotal
    \/ Acknowledge

Next ==
    \/ Validate
    \/ BuildService
    \/ Connect
    \/ BuildReceiver
    \/ StartReceiver
    \/ CreateHandler
    \/ MakeTopicSubscription
    \/ ReceiveAsync
    \/ AddSubscription
    \/ InterruptAtWait
    \/ InterruptDuringSetup
    \/ TerminateCall
    \/ TerminateReturns
    \/ TerminateRaises
    \/ Disconnect
    \/ PrintSummary
    \/ PrintGoodbye
    \/ OnMessage
    \/ GetDestination
    \/ ShowHeaders
    \/ ShowPayload
    \/ PrintTotal
    \/ Acknowledge

Spec == Init /\ [][Next]_vars

\* Both threads keep running: the main thread takes its next step and the
\* delivery thread finishes the invocation it is in.
FairSpec == Spec /\ WF_vars(MainStep) /\ WF_vars(HandlerStep)

----------------------------------------------------------------------------
\* Properties

Calls == {trace[i] : i \in 1..Len(trace)}

IsPrefix(s, t) == Len(s) <= Len(t) /\ s = SubSeq(t, 1, Len(s))

\* The library calls of the setup phase, as far as the run has got.
SetupCalls(n) == SubSeq(trace, 1, IF Len(trace) < n THEN Len(trace) ELSE n)

\* C1 (as stated): whenever the delivery thread is between invocations, the
\* N-th invocation has printed N as "Message #N" and as "Total messages
\* received: N" for every N delivered so far, and the summary printed at
\* shutdown shows the number of on_message invocations of the run.
C1_CountPrintedPerMessage ==
    /\ hpc = "idle" => (msgLines = delivered /\ totalLines = delivered)
    /\ (mainpc = "exited" /\ finalCount # <<>>)
          => finalCount = <<Len(delivered)>>

\* C2 (as stated): in queue mode with acknowledgment enabled, once an
\* invocation has ended the messages passed to receiver.ack are exactly the
\* messages delivered, in delivery order; with acknowledgment disabled or in
\* topic mode receiver.ack is never called.
C2_AckPerMessage ==
    IF args.mode = "queue" /\ args.ack
    THEN hpc = "idle" => ackCalls = delivered
    ELSE ackCalls = <<>>

\* C3 (as stated): no invocation of on_message ends by raising to the
\* library, whichever step of the handler fails.
C3_NothingEscapes == escaped = <<>>

\* C4 (as stated): the exit code is 0 exactly when the run ended through the
\* interrupt-triggered shutdown, and 1 for every failure during setup, the
\* missing queue name included.
C4_ExitCodes ==
    mainpc = "exited" =>
        /\ exitCode = {0} <=> (interrupted /\ finalCount # <<>>)
        /\ failure # "none" => exitCode = {1}

\* C4 (amended): the exit code is 0 exactly when the run ended through the
\* interrupt-triggered shutdown, 2 when the queue name is missing in queue
\* mode, and 1 for every exception raised by a setup step.
C4_ExitCodesAmended ==
    mainpc = "exited" =>
        /\ exitCode = {0} <=> (interrupted /\ finalCount # <<>>)
        /\ failure = "config" => exitCode = {2}
        /\ failure \notin {"none", "config"} => exitCode = {1}

C4_Witness ==
    /\ mainpc = "exited"
    /\ failure = "config"
    /\ exitCode = {2}

\* C5: once the interrupt has ended the blocking wait, the run reaches its
\* end with terminate, disconnect and the summary attempted in that order,
\* the final count printed, exit code 0, and a printed count of 0 when no
\* message was delivered -- whether or not terminate or disconnect raised.
C5_ShutdownCompletes ==
    (interrupted /\ mainpc # "exited")
        ~> /\ mainpc = "exited"
           /\ exitCode = {0}
           /\ Len(trace) >= 3
           /\ SubSeq(trace, Len(trace) - 2, Len(trace))
                 = <<"terminate", "disconnect", "summary">>
           /\ Len(finalCount) = 1
           /\ delivered = <<>> => finalCount = <<0>>

C5_Witness ==
    /\ mainpc = "exited"
    /\ exitCode = {0}
    /\ termResult = "raised"
    /\ discResult = "raised"
    /\ finalCount = <<0>>

\* C6: with mode queue and an empty queue name the run never leaves the
\* validation: no messaging service is built and connect is never called,
\* whatever the other arguments are.
C6_NoConnectionWithoutQueueName ==
    (args.mode = "queue" /\ args.queue = "") =>
        /\ mainpc \in {"validate", "exited"}
        /\ messaging_service = "None"
        /\ ~connected
        /\ trace = <<>>

C6_Witness ==
    /\ args.mode = "queue"
    /\ args.queue = ""
    /\ args.ack
    /\ args.show_headers
    /\ mainpc = "exited"
    /\ trace = <<>>

\* C7 (as stated): in both modes the setup calls are made in the order
\* connect, build and start the receiver, subscribe or bind, register the
\* handler; the handler is never registered before the subscription is
\* added (topic) or the queue is bound (queue).
C7_SubscribeThenRegister ==
    /\ IsPrefix(SetupCalls(6),
                IF args.mode = "topic"
                THEN <<"build_service", "connect", "build_receiver", "start",
                       "add_subscription", "receive_async">>
                ELSE <<"build_service", "connect", "build_receiver", "start",
                       "receive_async">>)
    /\ registered => IF args.mode = "topic" THEN subscribed
                                            ELSE receiver # "built"

\* C7 (amended): the setup calls are made in the order connect, build and
\* start the receiver (which binds the queue in queue mode), register the
\* handler and, in topic mode, add the subscription after the handler is
\* registered; the blocking wait is entered only after all of them.
C7_RegisterThenSubscribe ==
    /\ IsPrefix(SetupCalls(IF args.mode = "topic" THEN 6 ELSE 5),
                IF args.mode = "topic"
                THEN <<"build_service", "connect", "build_receiver", "start",
                       "receive_async", "add_subscription">>
                ELSE <<"build_service", "connect", "build_receiver", "start",
                       "receive_async">>)
    /\ subscribed => registered
    /\ registered => receiver # "built"
    /\ mainpc = "wait" =>
          /\ Len(trace) = (IF args.mode = "topic" THEN 6 ELSE 5)
          /\ connected
          /\ receiver = "started"
          /\ registered
          /\ args.mode = "topic" => subscribed

C7_Witness ==
    /\ args.mode = "topic"
    /\ mainpc = "subscribe"
    /\ registered
    /\ ~subscribed

C10_ResourcesReleased ==
    mainpc = "exited" =>
        /\ (connected \/ discResult # "none") => "disconnect" \in Calls
        /\ receiver \in {"started", "terminated"} => "terminate" \in Calls

====
